---- MODULE Spec2Model ----
(***************************************************************************)
(* Model of MacOS_Collector.py: one run of main(), the forensic            *)
(* sparsebundle pipeline                                                   *)
(*   log_system_info -> platform check -> selection -> size estimate ->    *)
(*   destination -> create_sparsebundle -> mount_sparsebundle ->           *)
(*   forensic_logs / log copy / copied_files -> copy loop ->               *)
(*   create_verification_report -> unmount_sparsebundle -> exit status.    *)
(* Every external step (hdiutil, ditto, the file system, subprocess        *)
(* queries, the dialogs) is a nondeterministic choice over its outcomes.   *)
(* The program is single-threaded; pc is main()'s position.                *)
(* Timestamps and log lines are not modelled.  A selection is a sequence   *)
(* of distinct paths; what each path is (file, directory, neither) is      *)
(* decided when copy_with_metadata looks at it.                            *)
(***************************************************************************)
EXTENDS Integers, Sequences, FiniteSets, TLC

VARIABLES
    pc,               \* position of main()
    platform,         \* sys.platform
    selected_paths,   \* main: selected_paths
    total_size,       \* estimate_size_needed: total_size
    size_needed,      \* main: size_needed
    destination_path, \* main: destination_path ("" when the dialog is cancelled)
    container,        \* the sparsebundle: absent / created / mounted / detached
    preexisting,      \* the sparsebundle path existed before this run
    mount_point,      \* main: mount_point ("" before a successful mount)
    success,          \* main: success (the copy loop's aggregate)
    idx,              \* position of the copy loop in selected_paths
    hash_log,         \* main: hash_log
    attempts,         \* history: one entry per copy_with_metadata call
    calls,            \* history: the container/copy/report operations invoked
    report,           \* the two report files and what the text file renders
    raised,           \* an exception reached main()'s top-level handler
    ret               \* main()'s return value, -1 until it returns

vars == <<pc, platform, selected_paths, total_size, size_needed, destination_path,
          container, preexisting, mount_point, success, idx, hash_log, attempts,
          calls, report, raised, ret>>

----------------------------------------------------------------------------
(* Bounds and input sets *)

MaxSel == 2

Paths == {"a", "b", "c"}

MiB == 1024 * 1024

MinSizeMb == 100

SizeSet == {0, 50 * MiB, 96 * MiB}

Kinds == {"file", "dir", "other"}

Platforms == {"darwin", "linux"}

Destinations == {"", "/dest"}

MountPoint == "/Volumes/ForensicData"

IsDistinct(s) == \A i, j \in 1..Len(s) : i # j => s[i] # s[j]

Selections ==
    UNION {{s \in [1..n -> Paths] : IsDistinct(s)} : n \in 0..MaxSel}

----------------------------------------------------------------------------
(* calculate_hash: the digest of a content, or None when reading fails *)

None == <<>>

Sha256(content) == <<"sha256", content>>

calculate_hash(content, readable) ==
    IF readable THEN Sha256(content) ELSE None

Contents == {"orig", "corrupt"}

----------------------------------------------------------------------------
(* estimate_size_needed *)

RECURSIVE SumSizes(_, _)
SumSizes(sz, n) == IF n = 0 THEN 0 ELSE sz[n] + SumSizes(sz, n - 1)

\* int((total / (1024 * 1024)) * 1.1): the truncation of 11*total / (10*MiB),
\* split into whole megabytes and a remainder so that no product exceeds 32 bits.
SizeMbWithBuffer(total) ==
    (11 * (total \div MiB) + (11 * (total % MiB)) \div MiB) \div 10

Max(a, b) == IF a >= b THEN a ELSE b

estimate_size_needed(total) == Max(SizeMbWithBuffer(total), MinSizeMb)

----------------------------------------------------------------------------
(* main(): returning *)

Return(code) ==
    /\ pc' = "done"
    /\ ret' = code

\* except Exception: return 1
ExceptReturn ==
    /\ raised' = TRUE
    /\ Return(1)

Init ==
    /\ pc = "log_system_info"
    /\ platform \in Platforms
    /\ selected_paths = <<>>
    /\ total_size = 0
    /\ size_needed = 0
    /\ destination_path = ""
    /\ preexisting \in BOOLEAN
    /\ container = IF preexisting THEN "created" ELSE "absent"
    /\ mount_point = ""
    /\ success = TRUE
    /\ idx = 0
    /\ hash_log = <<>>
    /\ attempts = <<>>
    /\ calls = <<>>
    /\ report = [invoked |-> 0, plist |-> "absent", txt |-> "absent",
                 file_hashes |-> <<>>, matches |-> <<>>]
    /\ raised = FALSE
    /\ ret = -1

LogSystemInfo ==
    /\ pc = "log_system_info"
    /\ \E escapes \in BOOLEAN :
         IF escapes
         THEN /\ ExceptReturn
         ELSE /\ pc' = "check_platform"
              /\ UNCHANGED <<raised, ret>>
    /\ UNCHANGED <<platform, selected_paths, total_size, size_needed,
                   destination_path, container, preexisting, mount_point, success,
                   idx, hash_log, attempts, calls, report>>

\* a platform check that lets every platform through
IsMacOSAlways == TRUE

\* sys.platform != 'darwin', negated
IsMacOS == platform = "darwin"

CheckPlatform ==
    /\ pc = "check_platform"
    /\ IF ~IsMacOS
       THEN Return(1)
       ELSE /\ pc' = "select"
            /\ UNCHANGED ret
    /\ UNCHANGED <<platform, selected_paths, total_size, size_needed,
                   destination_path, container, preexisting, mount_point, success,
                   idx, hash_log, attempts, calls, report, raised>>

SelectFilesAndFolders ==
    /\ pc = "select"
    /\ \E escapes \in BOOLEAN :
         IF escapes
         THEN \* tk.Tk() or a dialog raises
              /\ ExceptReturn
              /\ UNCHANGED selected_paths
         ELSE /\ \E all_paths \in Selections :
                   /\ selected_paths' = all_paths
                   /\ IF all_paths = <<>>
                      THEN Return(1)
                      ELSE /\ pc' = "estimate"
                           /\ UNCHANGED ret
              /\ UNCHANGED raised
    /\ UNCHANGED <<platform, total_size, size_needed, destination_path, container,
                   preexisting, mount_point, success, idx, hash_log, attempts,
                   calls, report>>

EstimateSizeNeeded ==
    /\ pc = "estimate"
    /\ \E sz \in [1..Len(selected_paths) -> SizeSet] :
         LET total == SumSizes(sz, Len(selected_paths))
         IN  /\ total_size' = total
             /\ size_needed' = estimate_size_needed(total)
    /\ pc' = "destination"
    /\ UNCHANGED <<platform, selected_paths, destination_path, container,
                   preexisting, mount_point, success, idx, hash_log, attempts,
                   calls, report, raised, ret>>

SelectDestination ==
    /\ pc = "destination"
    /\ \E escapes \in BOOLEAN :
         IF escapes
         THEN \* tk.Tk() or the dialog raises
              /\ ExceptReturn
              /\ UNCHANGED destination_path
         ELSE /\ \E d \in Destinations :
                   /\ destination_path' = d
                   /\ IF d = ""
                      THEN Return(1)
                      ELSE /\ pc' = "create"
                           /\ UNCHANGED ret
              /\ UNCHANGED raised
    /\ UNCHANGED <<platform, selected_paths, total_size, size_needed, container,
                   preexisting, mount_point, success, idx, hash_log, attempts,
                   calls, report>>

\* a create that never looks for an existing sparsebundle
PathExistsIgnored == FALSE

\* os.path.exists(sparsebundle_path)
PathExists == container # "absent"

\* create_sparsebundle and main's test of its result
CreateSparsebundle ==
    /\ pc = "create"
    /\ IF PathExists
       THEN /\ Return(1)
            /\ UNCHANGED <<container, calls>>
       ELSE /\ calls' = Append(calls, "hdiutil_create")
            /\ \E ok \in BOOLEAN :
                 IF ok
                 THEN /\ container' = "created"
                      /\ pc' = "mount"
                      /\ UNCHANGED ret
                 ELSE /\ Return(1)
                      /\ UNCHANGED container
    /\ UNCHANGED <<platform, selected_paths, total_size, size_needed,
                   destination_path, preexisting, mount_point, success, idx,
                   hash_log, attempts, report, raised>>

\* mount_sparsebundle and main's test of its result
MountSparsebundle ==
    /\ pc = "mount"
    /\ calls' = Append(calls, "hdiutil_attach")
    /\ \E ok \in BOOLEAN :
         IF ok
         THEN /\ container' = "mounted"
              /\ mount_point' = MountPoint
              /\ pc' = "make_log_dir"
              /\ UNCHANGED ret
         ELSE /\ Return(1)
              /\ UNCHANGED <<container, mount_point>>
    /\ UNCHANGED <<platform, selected_paths, total_size, size_needed,
                   destination_path, preexisting, success, idx, hash_log, attempts,
                   report, raised>>

\* a file-system call of main() outside any inner try: it completes or raises
SetupStep(here, next) ==
    /\ pc = here
    /\ \E escapes \in BOOLEAN :
         IF escapes
         THEN ExceptReturn
         ELSE /\ pc' = next
              /\ UNCHANGED <<raised, ret>>
    /\ UNCHANGED <<platform, selected_paths, total_size, size_needed,
                   destination_path, container, preexisting, mount_point, success,
                   idx, hash_log, attempts, calls, report>>

\* os.makedirs(log_dir_in_sparsebundle, exist_ok=True)
MakeLogDir == SetupStep("make_log_dir", "copy_log_file")

\* shutil.copy2(log_file, log_dir_in_sparsebundle)
CopyLogFile == SetupStep("copy_log_file", "make_files_dir")

\* os.makedirs(files_dir, exist_ok=True)
MakeFilesDir == SetupStep("make_files_dir", "begin_copy")

\* hash_log = []; success = True; the loop starts at the first selected path
BeginCopy ==
    /\ pc = "begin_copy"
    /\ hash_log' = <<>>
    /\ success' = TRUE
    /\ idx' = 1
    /\ pc' = "copy"
    /\ UNCHANGED <<platform, selected_paths, total_size, size_needed,
                   destination_path, container, preexisting, mount_point, attempts,
                   calls, report, raised, ret>>

----------------------------------------------------------------------------
(* copy_with_metadata *)

HashEntry(source, source_hash, dest_hash) ==
    [source_path |-> source, destination_path |-> "copied_files",
     sha256_source |-> source_hash, sha256_destination |-> dest_hash]

\* The outcomes of copy_with_metadata(source, files_dir, hash_log) for a source of
\* the given kind: whether ditto copied it, the entries appended to hash_log, and
\* the value returned.
copy_with_metadata(source, kind) ==
    IF kind = "file"
    THEN {[copied |-> FALSE, entries |-> <<>>, result |-> FALSE]}
         \cup
         {[copied |-> TRUE,
           entries |-> <<HashEntry(source, calculate_hash("orig", sr),
                                   calculate_hash(dc, dr))>>,
           result |-> (calculate_hash("orig", sr) = calculate_hash(dc, dr))] :
             sr \in BOOLEAN, dc \in Contents, dr \in BOOLEAN}
    ELSE IF kind = "dir"
    THEN {[copied |-> ok, entries |-> <<>>, result |-> ok] : ok \in BOOLEAN}
    ELSE {[copied |-> FALSE, entries |-> <<>>, result |-> TRUE]}

\* a loop that stops at the first failed item
LoopStopsOnFailure(result) == result /\ idx < Len(selected_paths)

\* for path in selected_paths: another item follows
LoopContinues(result) == idx < Len(selected_paths)

\* a report that is skipped when a copy failed
PcAfterLoopSkipOnFailure(all_ok) == IF all_ok THEN "report" ELSE "unmount"

\* create_verification_report(...) follows the loop
PcAfterLoop(all_ok) == "report"

\* one iteration of main()'s copy loop
CopyItem ==
    /\ pc = "copy"
    /\ \E kind \in Kinds :
         \E o \in copy_with_metadata(selected_paths[idx], kind) :
           /\ hash_log' = hash_log \o o.entries
           /\ attempts' = Append(attempts,
                                 [path |-> selected_paths[idx], kind |-> kind,
                                  copied |-> o.copied, result |-> o.result])
           /\ success' = (success /\ o.result)
           /\ IF LoopContinues(o.result)
              THEN /\ idx' = idx + 1
                   /\ pc' = "copy"
              ELSE /\ idx' = idx
                   /\ pc' = PcAfterLoop(success /\ o.result)
    /\ calls' = Append(calls, "copy_with_metadata")
    /\ UNCHANGED <<platform, selected_paths, total_size, size_needed,
                   destination_path, container, preexisting, mount_point, report,
                   raised, ret>>

----------------------------------------------------------------------------
(* create_verification_report *)

HasNone(log) ==
    \E i \in 1..Len(log) :
        log[i].sha256_source = None \/ log[i].sha256_destination = None

\* the "Match:" line of each entry
Matches(log) ==
    [i \in 1..Len(log) |-> log[i].sha256_source = log[i].sha256_destination]

ReportIO == {"ok", "plist_error", "txt_error"}

CreateVerificationReport ==
    /\ pc = "report"
    /\ calls' = Append(calls, "report")
    /\ \E escapes \in BOOLEAN :
         IF escapes
         THEN \* a subprocess.check_output of report_data raises, outside the try
              /\ report' = [report EXCEPT !.invoked = @ + 1]
              /\ ExceptReturn
         ELSE /\ \E io \in ReportIO :
                   IF HasNone(hash_log) \/ io = "plist_error"
                   THEN \* plistlib.dump raises (None is not serialisable, or I/O)
                        report' = [invoked |-> report.invoked + 1,
                                   plist |-> "failed", txt |-> "absent",
                                   file_hashes |-> hash_log, matches |-> <<>>]
                   ELSE IF io = "txt_error"
                   THEN \E k \in 0..Len(hash_log) :
                          report' = [invoked |-> report.invoked + 1,
                                     plist |-> "written", txt |-> "failed",
                                     file_hashes |-> hash_log,
                                     matches |-> SubSeq(Matches(hash_log), 1, k)]
                   ELSE report' = [invoked |-> report.invoked + 1,
                                   plist |-> "written", txt |-> "written",
                                   file_hashes |-> hash_log,
                                   matches |-> Matches(hash_log)]
              /\ pc' = "unmount"
              /\ UNCHANGED <<raised, ret>>
    /\ UNCHANGED <<platform, selected_paths, total_size, size_needed,
                   destination_path, container, preexisting, mount_point, success,
                   idx, hash_log, attempts>>

----------------------------------------------------------------------------
(* unmount_sparsebundle and main()'s exit status *)

ExitStatus == IF success THEN 0 ELSE 1

UnmountSparsebundle ==
    /\ pc = "unmount"
    /\ calls' = Append(calls, "hdiutil_detach")
    /\ \E ok \in BOOLEAN :
         IF ok
         THEN /\ container' = "detached"
              /\ Return(ExitStatus)
         ELSE /\ Return(1)
              /\ UNCHANGED container
    /\ UNCHANGED <<platform, selected_paths, total_size, size_needed,
                   destination_path, preexisting, mount_point, success, idx,
                   hash_log, attempts, report, raised>>

Next ==
    \/ LogSystemInfo
    \/ CheckPlatform
    \/ SelectFilesAndFolders
    \/ EstimateSizeNeeded
    \/ SelectDestination
    \/ CreateSparsebundle
    \/ MountSparsebundle
    \/ MakeLogDir
    \/ CopyLogFile
    \/ MakeFilesDir
    \/ BeginCopy
    \/ CopyItem
    \/ CreateVerificationReport
    \/ UnmountSparsebundle

Spec == Init /\ [][Next]_vars

----------------------------------------------------------------------------
(* Vocabulary of the properties *)

Returned == pc = "done"

MountSucceeded == mount_point = MountPoint

CopyLoopEntered == idx >= 1

Invoked(op) == \E i \in 1..Len(calls) : calls[i] = op

LastCall(cs) == cs[Len(cs)]

IsFileAttempt(a) == a.kind = "file"

FileAttempts == SelectSeq(attempts, IsFileAttempt)

\* ceil(1.1 * total / 2^20), in the same split form as SizeMbWithBuffer
CeilSizeMb(total) ==
    LET tenths == 11 * (total \div MiB) + (11 * (total % MiB)) \div MiB
        exact == ((11 * (total % MiB)) % MiB = 0) /\ (tenths % 10 = 0)
    IN  (tenths \div 10) + (IF exact THEN 0 ELSE 1)

Estimated == selected_paths # <<>> /\ pc # "estimate"

ReportWriteFailed ==
    report.invoked > 0 /\ ~(report.plist = "written" /\ report.txt = "written")

----------------------------------------------------------------------------
(* C1: if main() returns 0, every selected path was actually copied into the
   container, and every selected regular file has a CopyRecord in the hash log
   whose source digest equals its destination digest. *)
C1_ZeroExitMeansAllCopied ==
    (Returned /\ ret = 0) =>
        \A i \in 1..Len(selected_paths) :
            \E j \in 1..Len(attempts) :
                /\ attempts[j].path = selected_paths[i]
                /\ attempts[j].copied
                /\ attempts[j].kind = "file" =>
                       \E k \in 1..Len(hash_log) :
                           /\ hash_log[k].source_path = selected_paths[i]
                           /\ hash_log[k].sha256_source = hash_log[k].sha256_destination

(* C2: whenever mount_sparsebundle succeeded, unmount_sparsebundle has been invoked
   by the time main() returns, on every exit path. *)
C2_UnmountOnEveryExit ==
    (Returned /\ MountSucceeded) => Invoked("hdiutil_detach")

(* C3: the size estimate is at least 100 and at least ceil(1.1 * total_bytes / 2^20). *)
C3_EstimateAtLeastCeil ==
    Estimated =>
        /\ size_needed >= MinSizeMb
        /\ size_needed >= CeilSizeMb(total_size)

(* C4, as amended: once the copy loop is entered, copy_with_metadata is attempted
   for every selected path, in selection order, whichever earlier items failed, and
   if at least one item failed main() returns non-zero. *)
C4_AllItemsAttempted ==
    /\ CopyLoopEntered =>
           /\ Len(attempts) <= Len(selected_paths)
           /\ \A i \in 1..Len(attempts) : attempts[i].path = selected_paths[i]
    /\ (CopyLoopEntered /\ pc # "copy") => Len(attempts) = Len(selected_paths)
    /\ (Returned /\ \E i \in 1..Len(attempts) : ~attempts[i].result) => ret # 0

C4_FailedItemThenLaterItem ==
    /\ Returned
    /\ Len(attempts) = 2
    /\ ~attempts[1].result
    /\ attempts[2].result
    /\ ret = 1

(* C4 as stated: once the container is mounted, every selected path is attempted
   before main() returns. *)
C4_AttemptedOnceMounted ==
    (Returned /\ MountSucceeded) =>
        /\ Len(attempts) = Len(selected_paths)
        /\ \A i \in 1..Len(attempts) : attempts[i].path = selected_paths[i]

(* C5: when the report is written, the hash log holds exactly one CopyRecord per
   selected regular file, in selection order, including the files whose copy
   failed. *)
C5_OneRecordPerSelectedFile ==
    report.invoked > 0 =>
        /\ Len(hash_log) = Len(FileAttempts)
        /\ \A i \in 1..Len(hash_log) : hash_log[i].source_path = FileAttempts[i].path

(* C6, as amended: create_verification_report is invoked at most once, only after
   every selected path has been attempted and before any unmount; it is invoked
   whether or not a copy failed (the unmount is never reached without it); the
   records it captured are the final hash log, no CopyRecord being appended
   afterwards. *)
C6_ReportOnceAfterCopiesBeforeUnmount ==
    /\ report.invoked <= 1
    /\ report.invoked = 1 =>
           /\ Len(attempts) = Len(selected_paths)
           /\ \A i, j \in 1..Len(calls) :
                  /\ (calls[i] = "report" /\ calls[j] = "copy_with_metadata") => j < i
                  /\ (calls[i] = "report" /\ calls[j] = "hdiutil_detach") => i < j
    /\ (pc = "unmount" \/ Invoked("hdiutil_detach")) => report.invoked = 1
    /\ (Returned /\ CopyLoopEntered) => report.invoked = 1
    /\ report.plist # "absent" => report.file_hashes = hash_log

C6_ReportWrittenAfterFailedCopy ==
    /\ Returned
    /\ ~success
    /\ report.plist = "written"
    /\ report.txt = "written"
    /\ container = "detached"

(* C6 as stated: in every run that reaches the mounted state the report is
   written (exactly once) before main() returns. *)
C6_ReportWrittenOnceMounted ==
    (Returned /\ MountSucceeded) =>
        /\ report.invoked = 1
        /\ report.plist = "written"
        /\ report.txt = "written"

(* C7: whenever a stage fails (container creation, mount, writing the report
   files, unmount), main() returns non-zero. *)
C7_StageFailureIsNonZero ==
    (/\ Returned
     /\ \/ (Invoked("hdiutil_create") /\ container = "absent")
        \/ (Invoked("hdiutil_attach") /\ ~MountSucceeded)
        \/ ReportWriteFailed
        \/ (Invoked("hdiutil_detach") /\ container # "detached"))
    => ret # 0

(* C8: the container only moves absent -> created -> mounted -> detached; mount is
   invoked only after a successful create, unmount only after a successful mount,
   copies and the report only while mounted; create on an existing path does not
   invoke the creation tool, leaves the container unchanged and no mount follows. *)
C8_ContainerLifecycle ==
    /\ [](preexisting => (container = "created" /\ calls = <<>>))
    /\ [][/\ container' # container =>
                <<container, container'>> \in
                    {<<"absent", "created">>, <<"created", "mounted">>,
                     <<"mounted", "detached">>}
          /\ Len(calls') > Len(calls) =>
                /\ LastCall(calls') = "hdiutil_create" => container = "absent"
                /\ LastCall(calls') = "hdiutil_attach" =>
                       (container = "created" /\ Invoked("hdiutil_create"))
                /\ LastCall(calls') = "hdiutil_detach" =>
                       (container = "mounted" /\ MountSucceeded)
                /\ LastCall(calls') \in {"copy_with_metadata", "report"} =>
                       (container = "mounted" /\ container' = "mounted")]_vars

C8_FullLifecycle ==
    /\ Returned
    /\ container = "detached"
    /\ Len(attempts) = Len(selected_paths)
    /\ report.invoked = 1

(* C9: a precondition failure (platform not macOS, empty selection, no destination)
   aborts at once: main() returns non-zero and no create, mount, copy, report or
   unmount is ever performed. *)
C9_PreconditionFailureAborts ==
    LET Aborted == /\ Returned
                   /\ ret # 0
                   /\ calls = <<>>
                   /\ attempts = <<>>
                   /\ report.invoked = 0
                   /\ container = (IF preexisting THEN "created" ELSE "absent")
    IN  /\ (platform # "darwin" /\ pc \notin {"log_system_info", "check_platform"})
               => Aborted
        /\ (selected_paths = <<>>
                /\ pc \notin {"log_system_info", "check_platform", "select"})
               => Aborted
        /\ (destination_path = ""
                /\ pc \notin {"log_system_info", "check_platform", "select",
                              "estimate", "destination"})
               => Aborted

C9_EmptySelectionAborted ==
    /\ Returned
    /\ ~raised
    /\ platform = "darwin"
    /\ selected_paths = <<>>
    /\ ret = 1

(* C10: for a regular file whose external copy succeeded, copy_with_metadata
   returns success only if both digests were computed (not None) and are equal; a
   record with a failed digest is never rendered as a match. *)
C10_SuccessNeedsComputedEqualDigests ==
    /\ \A i \in 1..Len(attempts) :
           (attempts[i].kind = "file" /\ attempts[i].copied /\ attempts[i].result) =>
               \E k \in 1..Len(hash_log) :
                   /\ hash_log[k].source_path = attempts[i].path
                   /\ hash_log[k].sha256_source # None
                   /\ hash_log[k].sha256_destination # None
                   /\ hash_log[k].sha256_source = hash_log[k].sha256_destination
    /\ \A k \in 1..Len(report.matches) :
           report.matches[k] =>
               /\ report.file_hashes[k].sha256_source # None
               /\ report.file_hashes[k].sha256_destination # None

====
